---- MODULE Spec2Model ----
(***************************************************************************)
(* Model of boyle.medimage.MedicalImage: the image wrapper with an         *)
(* optional mask, a smoothing width (FWHM) and two cache-validity flags.   *)
(* One action per public method; every action models the whole method,     *)
(* the nested calls of get_data included.                                  *)
(***************************************************************************)
EXTENDS Integers, Sequences, FiniteSets, TLC

\* obj:  the MedicalImage object (its fields)
\* pre:  the object as it was before the last method call
\* last: the last method call: its arguments and its outcome
\* prev: the call before the last one, when that was a call of
\*       get_data(smoothed=True, masked=True, safe_copy=False) that returned
\* mhd:  the header file, the data file and the last call of the functions
\*       of boyle.mhd (read / write of the tagged header and the raw data)
VARIABLES obj, pre, last, prev, mhd

vars == <<obj, pre, last, prev, mhd>>

(* ------------------------------ bounds -------------------------------- *)

\* largest smoothing width offered to the setters (widths range over -1..MaxFwhm)
MaxFwhm == 2
\* number of distinct mask images offered to set_mask / apply_mask
MaxMasks == 2
\* largest rank of the array offered to unmask (ranks range over 0..MaxRank)
MaxRank == 3
\* nesting depth at which the interpreter cuts a recursion with RecursionError
RecursionLimit == 4

(* ----------------------------- constants ------------------------------ *)

\* self.mask = None
NoMask == 0

Widths == -1 .. MaxFwhm
MaskIds == 1 .. MaxMasks
Ranks == 0 .. MaxRank
\* dimensionalities of the wrapped image: 3 and 4 can be masked, others cannot
Ndims == {2, 3, 4}

(* ------------------------------- values ------------------------------- *)

\* A returned value: kind "none" is Python's None; "volume" is an array
\* derived from the image, smoothed with width fwhm (0: not smoothed) and
\* projected through mask (NoMask: not masked); "array" is the argument of
\* unmask handed back, of rank rank.
Value(kind, fwhm, mask, rank) ==
    [kind |-> kind, fwhm |-> fwhm, mask |-> mask, rank |-> rank]

None == Value("none", 0, NoMask, 0)

Volume(fwhm, mask) == Value("volume", fwhm, mask, 0)

\* Outcome of a method: the object afterwards, the returned value, the
\* exception raised ("None": returned normally) and what get_data did:
\* frames entered, whether a frame ran the recomputation, the (smoothed,
\* masked) request of that frame, and the number of calls of the smoothing
\* and the masking functions.
Outcome(s, ret, err) ==
    [s |-> s, ret |-> ret, err |-> err, depth |-> 0, recomputed |-> FALSE,
     rs |-> FALSE, rm |-> FALSE, nsmooth |-> 0, nmask |-> 0]

Returns(s, ret) == Outcome(s, ret, "None")

Raises(s, err) == Outcome(s, None, err)

(* --------------------------- small methods ---------------------------- *)

zeroe(s) ==
    [s EXCEPT !.smooth_fwhm = 0, !.is_data_masked = FALSE, !.is_data_smooth = FALSE]

has_mask(s) == s.mask # NoMask

is_smoothed(s) == s.is_data_smooth

\* has_data_loaded: self.img.in_memory (reads an attribute of self.img)
has_data_loaded(s) == s.in_memory

\* __init__: the image is file-backed (not resident) or already decoded
\* (resident); no mask; width 0 and both flags false.
Construct(resident, cache_data, nd) ==
    zeroe([img |-> TRUE, in_memory |-> resident, ndim |-> nd,
           caching |-> IF cache_data THEN "fill" ELSE "unchanged",
           mask |-> NoMask, mask_in_memory |-> FALSE,
           smooth_fwhm |-> 0, is_data_masked |-> FALSE, is_data_smooth |-> FALSE])

\* clear_data: self.img.uncache(); self.mask.uncache()
clear_data(s) ==
    IF ~s.img THEN Raises(s, "AttributeError")
    ELSE LET s1 == [s EXCEPT !.in_memory = FALSE] IN
         IF ~has_mask(s1) THEN Raises(s1, "AttributeError")
         ELSE Returns([s1 EXCEPT !.mask_in_memory = FALSE], None)

\* clear: clear_data(); zeroe(); img = None; mask = None
clear(s) ==
    LET r == clear_data(s) IN
    IF r.err # "None" THEN r
    ELSE Returns([zeroe(r.s) EXCEPT !.img = FALSE, !.in_memory = FALSE,
                                    !.mask = NoMask, !.mask_in_memory = FALSE], None)

(* ------------------------- width and mask ----------------------------- *)

\* the setter with the comparison dropped: every assignment clears the flag
set_smooth_fwhm_always_clears(s, fwhm) ==
    Returns([s EXCEPT !.smooth_fwhm = fwhm, !.is_data_smooth = FALSE], None)

\* smooth_fwhm setter
set_smooth_fwhm(s, fwhm) ==
    LET s1 == IF fwhm # s.smooth_fwhm THEN [s EXCEPT !.is_data_smooth = FALSE] ELSE s
    IN  Returns([s1 EXCEPT !.smooth_fwhm = fwhm], None)

\* remove_smoothing: the width is zeroed, then self.img.uncache()
remove_smoothing(s) ==
    LET s1 == [s EXCEPT !.smooth_fwhm = 0] IN
    IF ~s1.img THEN Raises(s1, "AttributeError")
    ELSE Returns([s1 EXCEPT !.in_memory = FALSE], None)

\* remove_masking: self.mask.uncache(); self.mask = None
remove_masking(s) ==
    IF ~has_mask(s) THEN Raises(s, "AttributeError")
    ELSE Returns([s EXCEPT !.mask = NoMask, !.mask_in_memory = FALSE], None)

\* set_mask with the assignment moved before the compatibility check
set_mask_assigns_first(s, mask_img, loaded, resident) ==
    IF loaded = "FileNotFound" THEN Raises(s, loaded)
    ELSE LET s1 == [s EXCEPT !.mask = mask_img, !.mask_in_memory = resident] IN
         IF loaded # "ok" THEN Raises(s1, loaded)
         ELSE IF ~s.img THEN Raises(s1, "NiftiFilesNotCompatible")
         ELSE Returns(s1, None)

\* set_mask: load_mask and check_img_compatibility are external; `loaded` is
\* what they do: "ok", or the exception one of them raises.  `resident`
\* says whether the loaded mask image holds its data in memory.
set_mask(s, mask_img, loaded, resident) ==
    IF loaded # "ok" THEN Raises(s, loaded)
    ELSE IF ~s.img THEN Raises(s, "NiftiFilesNotCompatible")
    ELSE Returns([s EXCEPT !.mask = mask_img, !.mask_in_memory = resident], None)

\* unmask with the rank-2 branch missing
unmask_rank1_only(s, rank) ==
    IF ~has_mask(s) THEN Returns(s, Value("array", 0, NoMask, rank))
    ELSE IF rank = 1
         THEN Returns([s EXCEPT !.mask_in_memory = TRUE], Value("unmasked", 0, s.mask, rank))
         ELSE Raises(s, "ValueError")

\* unmask: rank is arr.ndim; mask.get_data() leaves the mask's data resident
unmask(s, rank) ==
    IF ~has_mask(s) THEN Returns(s, Value("array", 0, NoMask, rank))
    ELSE IF rank = 2 \/ rank = 1
         THEN Returns([s EXCEPT !.mask_in_memory = TRUE], Value("unmasked", 0, s.mask, rank))
         ELSE Raises(s, "ValueError")

\* _mask_data: mask.get_data(), then boolean selection for a 3-D image
\* (a rank-1 array), per-volume masking for a 4-D image (a rank-2 array),
\* ValueError for any other dimensionality.
mask_data(s) ==
    LET s1 == [s EXCEPT !.mask_in_memory = TRUE] IN
    IF s.ndim = 3 THEN Returns(s1, Value("array", 0, s.mask, 1))
    ELSE IF s.ndim = 4 THEN Returns(s1, Value("array", 0, s.mask, 2))
    ELSE Raises(s1, "ValueError")

(* ------------------------------ get_data ------------------------------ *)

\* the condition of the cache branch: not safe_copy and the request equals
\* the cached flags
cache_hit(s, smoothed, masked, safe_copy) ==
    /\ ~safe_copy
    /\ smoothed = s.is_data_smooth
    /\ masked = s.is_data_masked

\* the smoothing test without the width: smoothing whenever it is requested
smooth_applies_any_width(s, smoothed) == smoothed

\* is_smoothed of the recomputation: the smoothing function is applied
smooth_applies(s, smoothed) == smoothed /\ s.smooth_fwhm > 0

\* is_data_masked of the recomputation: the mask is applied
mask_applies(s, masked) == masked /\ has_mask(s)

\* the final commit of the flags
commit_flags(s, safe_copy, is_smoothed_, is_data_masked_) ==
    IF ~safe_copy
    THEN [s EXCEPT !.is_data_masked = is_data_masked_, !.is_data_smooth = is_smoothed_]
    ELSE s

\* The body of get_data after the cache branch.  safe_copy calls the
\* module-level name get_data, which the module neither defines nor
\* imports: NameError.  Otherwise img.get_data(caching) leaves the data
\* resident under 'fill'.  smooth_ok: whether the external smoothing
\* function returns (TRUE) or raises (FALSE).
recompute(s, smoothed, masked, safe_copy, smooth_ok) ==
    LET mark(r, ns, nm) ==
            [r EXCEPT !.recomputed = TRUE, !.rs = smoothed, !.rm = masked,
                      !.nsmooth = ns, !.nmask = nm]
    IN
    IF safe_copy THEN mark(Raises(s, "NameError"), 0, 0)
    ELSE IF ~s.img THEN mark(Raises(s, "AttributeError"), 0, 0)
    ELSE
      LET s1 == IF s.caching = "fill" THEN [s EXCEPT !.in_memory = TRUE] ELSE s
          sm == smooth_applies(s1, smoothed)
          mk == mask_applies(s1, masked)
          ns == IF sm THEN 1 ELSE 0
          nm == IF mk THEN 1 ELSE 0
          fw == IF sm THEN s1.smooth_fwhm ELSE 0
      IN
      IF sm /\ ~smooth_ok THEN mark(Raises(s1, "SmoothError"), ns, 0)
      ELSE IF ~mk THEN mark(Returns(commit_flags(s1, safe_copy, sm, FALSE), Volume(fw, NoMask)), ns, 0)
      ELSE
        LET m == mask_data(s1) IN
        IF m.err # "None" THEN mark(Raises(m.s, m.err), ns, nm)
        ELSE LET u == unmask(m.s, m.ret.rank) IN
             IF u.err # "None" THEN mark(Raises(u.s, u.err), ns, nm)
             ELSE mark(Returns(commit_flags(u.s, safe_copy, sm, TRUE), Volume(fw, s1.mask)), ns, nm)

\* get_data(smoothed, masked, safe_copy); depth is the number of get_data
\* frames already on the stack.  The cache branch returns self.get_data(),
\* a call with the default arguments (True, True, False).
RECURSIVE get_data(_, _, _, _, _, _)
get_data(s, smoothed, masked, safe_copy, smooth_ok, depth) ==
    IF depth >= RecursionLimit
    THEN [Raises(s, "RecursionError") EXCEPT !.depth = depth]
    ELSE IF cache_hit(s, smoothed, masked, safe_copy) /\ ~s.img
    THEN [Raises(s, "AttributeError") EXCEPT !.depth = depth + 1]
    ELSE IF cache_hit(s, smoothed, masked, safe_copy)
            /\ has_data_loaded(s) /\ s.caching = "fill"
    THEN get_data(s, TRUE, TRUE, FALSE, smooth_ok, depth + 1)
    ELSE [recompute(s, smoothed, masked, safe_copy, smooth_ok) EXCEPT !.depth = depth + 1]

(* ------------------------ methods on get_data ------------------------- *)

\* apply_mask: set_mask, then get_data(masked=True, smoothed=True, safe_copy=True)
apply_mask(s, mask_img, loaded, resident, smooth_ok) ==
    LET r == set_mask(s, mask_img, loaded, resident) IN
    IF r.err # "None" THEN r
    ELSE get_data(r.s, TRUE, TRUE, TRUE, smooth_ok, 0)

\* apply_smoothing without the restore of the old width on failure
apply_smoothing_no_restore(s, fwhm, smooth_ok) ==
    IF fwhm <= 0 THEN Returns(s, None)
    ELSE get_data([s EXCEPT !.smooth_fwhm = fwhm], TRUE, TRUE, TRUE, smooth_ok, 0)

\* apply_smoothing
apply_smoothing(s, fwhm, smooth_ok) ==
    IF fwhm <= 0 THEN Returns(s, None)
    ELSE
      LET old_smooth_fwhm == s.smooth_fwhm
          r == get_data([s EXCEPT !.smooth_fwhm = fwhm], TRUE, TRUE, TRUE, smooth_ok, 0)
      IN  IF r.err # "None"
          THEN [r EXCEPT !.s = [r.s EXCEPT !.smooth_fwhm = old_smooth_fwhm]]
          ELSE [r EXCEPT !.s = [r.s EXCEPT !.smooth_fwhm = fwhm]]

\* mask_and_flatten: without a mask it logs and returns None; with one it
\* indexes get_data(True, True, False) by the mask indices
mask_and_flatten(s, smooth_ok) ==
    IF ~has_mask(s) THEN Returns(s, None)
    ELSE
      LET r == get_data(s, TRUE, TRUE, FALSE, smooth_ok, 0) IN
      IF r.err # "None" THEN r
      ELSE [r EXCEPT !.s = [r.s EXCEPT !.mask_in_memory = TRUE],
                     !.ret = Value("flat", r.ret.fwhm, r.ret.mask, 1)]

\* to_file: what is handed to save_niigz is the returned value: the image
\* object itself ("image") or the array of get_data(masked=True,
\* smoothed=True) with the image's header and affine ("data").  save_niigz
\* is external; it cannot save an absent image.
to_file(s, smooth_ok) ==
    IF ~has_mask(s) /\ ~is_smoothed(s)
    THEN IF ~s.img THEN Raises(s, "SaveError")
         ELSE Returns(s, Value("image", 0, NoMask, 0))
    ELSE
      LET r == get_data(s, TRUE, TRUE, FALSE, smooth_ok, 0) IN
      IF r.err # "None" THEN r
      ELSE [r EXCEPT !.ret = Value("data", r.ret.fwhm, r.ret.mask, 0)]

(* ------------------------- boyle.mhd: strings ------------------------ *)

\* A string is a sequence of tokens: a token is one character (" ", "=",
\* the newline, a letter, a digit) or one whole word that the code only
\* compares as a whole (a tag name such as "NDims", a type tag such as
\* "MET_UCHAR", a file name).

\* most dimensions of a volume, in a file or in memory
MaxNDims == 4
\* the sizes of a dimension
DimSizes == {1, 2}
\* most entries of a header dictionary offered to write_meta_header
MaxEntries == 2
\* most lines of a header file written by hand
MaxLines == 2

Whitespace == {" ", "\n"}

\* str.strip: leading and trailing whitespace removed
RECURSIVE StripLeft(_)
StripLeft(s) ==
    IF s # <<>> /\ Head(s) \in Whitespace THEN StripLeft(Tail(s)) ELSE s

RECURSIVE StripRight(_)
StripRight(s) ==
    IF s # <<>> /\ s[Len(s)] \in Whitespace
    THEN StripRight(SubSeq(s, 1, Len(s) - 1)) ELSE s

Strip(s) == StripRight(StripLeft(s))

\* str.split(s, sep): the pieces between all the occurrences of sep
RECURSIVE Split(_, _)
Split(s, sep) ==
    IF \A i \in 1 .. Len(s) : s[i] # sep THEN <<s>>
    ELSE LET i == CHOOSE j \in 1 .. Len(s) :
                      s[j] = sep /\ \A k \in 1 .. j - 1 : s[k] # sep
         IN  <<SubSeq(s, 1, i - 1)>> \o Split(SubSeq(s, i + 1, Len(s)), sep)

\* str.split(): the words between runs of whitespace
RECURSIVE Words(_)
Words(s) ==
    LET r == StripLeft(s) IN
    IF r = <<>> THEN <<>>
    ELSE LET n == IF \A i \in 1 .. Len(r) : r[i] \notin Whitespace THEN Len(r)
                  ELSE (CHOOSE j \in 1 .. Len(r) :
                            r[j] \in Whitespace /\ \A k \in 1 .. j - 1 : r[k] \notin Whitespace) - 1
         IN  <<SubSeq(r, 1, n)>> \o Words(SubSeq(r, n + 1, Len(r)))

\* the successive results of readline(): each line with its newline
RECURSIVE ReadLines(_)
ReadLines(text) ==
    IF text = <<>> THEN <<>>
    ELSE LET parts == Split(text, "\n") IN
         IF Len(parts) = 1 THEN <<text>>
         ELSE <<parts[1] \o <<"\n">> >>
              \o ReadLines(SubSeq(text, Len(parts[1]) + 2, Len(text)))

(* ------------------------ boyle.mhd: the header ----------------------- *)

MHD_TAGS ==
    << "ObjectType", "NDims", "BinaryData", "BinaryDataByteOrderMSB",
       "CompressedData", "CompressedDataSize", "TransformMatrix", "Offset",
       "CenterOfRotation", "AnatomicalOrientation", "ElementSpacing", "DimSize",
       "ElementType", "ElementDataFile", "Comment", "SeriesDescription",
       "AcquisitionDate", "AcquisitionTime", "StudyDate", "StudyTime" >>

SchemaTags == {MHD_TAGS[i] : i \in 1 .. Len(MHD_TAGS)}

TagIndex(tag) == CHOOSE i \in 1 .. Len(MHD_TAGS) : MHD_TAGS[i] = tag

\* A dictionary is the sequence of its <<key, value>> entries in insertion
\* order, with distinct keys.
DictKeys(d) == {d[i][1] : i \in 1 .. Len(d)}

DictGet(d, k) == d[CHOOSE i \in 1 .. Len(d) : d[i][1] = k][2]

\* d[k] = v
DictPut(d, k, v) ==
    IF k \in DictKeys(d)
    THEN [i \in 1 .. Len(d) |-> IF d[i][1] = k THEN <<k, v>> ELSE d[i]]
    ELSE Append(d, <<k, v>>)

\* dictionaries are equal when they hold the same entries, in any order
DictItems(d) == {d[i] : i \in 1 .. Len(d)}

\* the outcome of a function of boyle.mhd
MhdOutcome(value, err) == [value |-> value, err |-> err]

\* write_meta_header in the order of the dictionary instead of MHD_TAGS
RECURSIVE write_meta_header_in_dict_order(_, _)
write_meta_header_in_dict_order(meta_dict, i) ==
    IF i > Len(meta_dict) THEN <<>>
    ELSE (IF meta_dict[i][1] \in SchemaTags
          THEN <<meta_dict[i][1], " ", "=", " ">> \o meta_dict[i][2] \o <<"\n">>
          ELSE <<>>)
         \o write_meta_header_in_dict_order(meta_dict, i + 1)

\* write_meta_header: the text written, built from tag number i on
RECURSIVE write_meta_header(_, _)
write_meta_header(meta_dict, i) ==
    IF i > Len(MHD_TAGS) THEN <<>>
    ELSE (IF MHD_TAGS[i] \in DictKeys(meta_dict)
          THEN <<MHD_TAGS[i], " ", "=", " ">> \o DictGet(meta_dict, MHD_TAGS[i]) \o <<"\n">>
          ELSE <<>>)
         \o write_meta_header(meta_dict, i + 1)

\* the body of the while loop of read_meta_header for one line: at most
\* one tag of MHD_TAGS equals the stripped tags[0]; tags[1] does not exist
\* when the line holds no '='
read_line(meta_dict, line) ==
    LET tags == Split(line, "=")
        key  == Strip(tags[1])
    IN  IF Len(key) = 1 /\ key[1] \in SchemaTags /\ key[1] \notin DictKeys(meta_dict)
        THEN IF Len(tags) < 2 THEN MhdOutcome(meta_dict, "IndexError")
             ELSE MhdOutcome(DictPut(meta_dict, key[1], Strip(tags[2])), "None")
        ELSE MhdOutcome(meta_dict, "None")

\* read_meta_header: the lines from number i on, into meta_dict
RECURSIVE read_lines(_, _, _)
read_lines(lines, i, meta_dict) ==
    IF i > Len(lines) THEN MhdOutcome(meta_dict, "None")
    ELSE LET r == read_line(meta_dict, lines[i]) IN
         IF r.err # "None" THEN MhdOutcome(<<>>, r.err)
         ELSE read_lines(lines, i + 1, r.value)

read_meta_header(text) == read_lines(ReadLines(text), 1, <<>>)

(* ----------------------- boyle.mhd: type tables ---------------------- *)

\* a dict display or comprehension: the entries are stored one after the
\* other, a later entry with the same key overwriting the earlier value
RECURSIVE DictOf(_, _, _)
DictOf(entries, i, d) ==
    IF i > Len(entries) THEN d
    ELSE DictOf(entries, i + 1, DictPut(d, entries[i][1], entries[i][2]))

\* "float" is np.float, the builtin float
MHD_TO_NUMPY_TYPE ==
    DictOf(<< <<"MET_FLOAT", "float">>,
              <<"MET_UCHAR", "uint8">>,
              <<"MET_CHAR", "int8">>,
              <<"MET_USHORT", "uint8">>,
              <<"MET_SHORT", "int8">>,
              <<"MET_UINT", "uint32">>,
              <<"MET_INT", "int32">>,
              <<"MET_ULONG", "uint64">>,
              <<"MET_ULONG", "int64">>,
              <<"MET_FLOAT", "float32">>,
              <<"MET_DOUBLE", "float64">> >>, 1, <<>>)

NDARRAY_TO_ARRAY_TYPE ==
    DictOf(<< <<"float", "f">>,
              <<"uint8", "H">>,
              <<"int8", "h">>,
              <<"uint16", "I">>,
              <<"int16", "i">>,
              <<"uint32", "I">>,
              <<"int32", "i">>,
              <<"uint64", "I">>,
              <<"int64", "i">>,
              <<"float32", "f">>,
              <<"float64", "d">> >>, 1, <<>>)

\* {v: k for k, v in d.items()}
Invert(d, i, acc) ==
    DictOf([j \in 1 .. Len(d) |-> <<d[j][2], d[j][1]>>], i, acc)

NUMPY_TO_MHD_TYPE == Invert(MHD_TO_NUMPY_TYPE, 1, <<>>)

\* the element types of numpy that the tables name
ElementTypes ==
    {"float32", "float64", "uint8", "int8", "uint16", "int16",
     "uint32", "int32", "uint64", "int64"}

\* bytes of one sample of an element type
ByteWidth(ndtype) ==
    CASE ndtype \in {"uint8", "int8"} -> 1
      [] ndtype \in {"uint16", "int16"} -> 2
      [] ndtype \in {"uint32", "int32", "float32"} -> 4
      [] ndtype \in {"uint64", "int64", "float64", "float"} -> 8

\* array.array(typecode).itemsize
ItemSize(arrtype) ==
    CASE arrtype \in {"H", "h"} -> 2
      [] arrtype \in {"I", "i", "f"} -> 4
      [] arrtype = "d" -> 8

(* ------------------------ boyle.mhd: numbers -------------------------- *)

Digits == <<"0", "1", "2", "3", "4", "5", "6", "7", "8", "9">>

DigitTokens == {Digits[i] : i \in 1 .. Len(Digits)}

\* int(s) succeeds: s is a non-empty run of digits
IsInt(s) == s # <<>> /\ \A i \in 1 .. Len(s) : s[i] \in DigitTokens

\* int(s)
RECURSIVE IntOf(_)
IntOf(s) ==
    IF s = <<>> THEN 0
    ELSE 10 * IntOf(SubSeq(s, 1, Len(s) - 1))
         + (CHOOSE d \in 0 .. 9 : Digits[d + 1] = s[Len(s)])

\* str(n) for n >= 0
RECURSIVE Str(_)
Str(n) == IF n < 10 THEN <<Digits[n + 1]>> ELSE Str(n \div 10) \o <<Digits[(n % 10) + 1]>>

\* ' '.join(words)
RECURSIVE Join(_)
Join(words) ==
    IF words = <<>> THEN <<>>
    ELSE IF Len(words) = 1 THEN words[1]
    ELSE words[1] \o <<" ">> \o Join(Tail(words))

\* reduce(lambda x, y: x*y, seq, 1)
RECURSIVE Product(_)
Product(seq) == IF seq = <<>> THEN 1 ELSE Head(seq) * Product(Tail(seq))

Reverse(seq) == [i \in 1 .. Len(seq) |-> seq[Len(seq) + 1 - i]]

(* ------------------------ boyle.mhd: raw data ------------------------- *)

\* A file: whether it exists, its name and its content (tokens for the
\* header file, bytes for the data file).
File(name, content) == [exists |-> TRUE, name |-> name, content |-> content]

\* A volume: element type, shape and the samples in C order.  A sample read
\* from a file is the tuple of its bytes, lowest byte first.
NoVolume == [dtype |-> "none", shape |-> <<>>, flat |-> <<>>]

\* sample number k of width w in a sequence of bytes
SampleAt(bytes, k, w) == SubSeq(bytes, (k - 1) * w + 1, k * w)

\* np.array(binvalues, ndtype): a sample of typecode arrtype converted to
\* the element type: the low bytes are kept, a wider type is filled with
\* the sign
Cast(sample, arrtype, ndtype) ==
    LET w    == Len(sample)
        bw   == ByteWidth(ndtype)
        fill == IF arrtype \in {"h", "i"} /\ sample[w] >= 128 THEN 255 ELSE 0
    IN  IF bw <= w THEN SubSeq(sample, 1, bw)
        ELSE sample \o [i \in 1 .. bw - w |-> fill]

\* the bytes of the single-precision float of value v
Float32Bytes(v) ==
    CASE v = 0 -> <<0, 0, 0, 0>>
      [] v = 1 -> <<0, 0, 128, 63>>
      [] v = 2 -> <<0, 0, 0, 64>>
      [] v = 3 -> <<0, 0, 64, 64>>
      [] v = 4 -> <<0, 0, 128, 64>>

\* the bytes of the double-precision float of value v
Float64Bytes(v) ==
    CASE v = 0 -> <<0, 0, 0, 0, 0, 0, 0, 0>>
      [] v = 1 -> <<0, 0, 0, 0, 0, 0, 240, 63>>
      [] v = 2 -> <<0, 0, 0, 0, 0, 0, 0, 64>>
      [] v = 3 -> <<0, 0, 0, 0, 0, 0, 8, 64>>
      [] v = 4 -> <<0, 0, 0, 0, 0, 0, 16, 64>>

\* the bytes of a sample of value v (0 <= v < 128) held in element type ndtype
SampleBytes(ndtype, v) ==
    IF ndtype = "float32" THEN Float32Bytes(v)
    ELSE IF ndtype = "float64" THEN Float64Bytes(v)
    ELSE [i \in 1 .. ByteWidth(ndtype) |-> IF i = 1 THEN v ELSE 0]

\* the outcome of load_raw_data_with_mhd: (data, meta_dict) or an error,
\* and whether the data file was opened
LoadOutcome(vol, meta_dict, err, opened) ==
    [vol |-> vol, value |-> meta_dict, err |-> err, opened |-> opened]

\* the shape given to the array: the 3-D fix reverses DimSize
LoadShape(dim, arr, volume) ==
    IF dim = 3 THEN Reverse(arr) ELSE <<arr[dim], volume>>

\* load_raw_data_with_mhd, from the data file on: meta_dict holds the
\* required tags, dim >= 1, arr is DimSize and ndtype the element type
load_data(meta_dict, raw, dim, arr, ndtype) ==
    LET volume  == Product(SubSeq(arr, 1, IF dim - 1 < Len(arr) THEN dim - 1 ELSE Len(arr)))
        arrtype == DictGet(NDARRAY_TO_ARRAY_TYPE, ndtype)
        w       == ItemSize(arrtype)
    IN
    IF ~raw.exists \/ raw.name # DictGet(meta_dict, "ElementDataFile")
    THEN LoadOutcome(NoVolume, <<>>, "IOError", FALSE)
    ELSE IF Len(arr) < dim
    THEN LoadOutcome(NoVolume, <<>>, "IndexError", TRUE)
    ELSE LET count == volume * arr[dim] IN
         IF count * w > Len(raw.content)
         THEN LoadOutcome(NoVolume, <<>>, "EOFError", TRUE)
         ELSE IF dim = 3 /\ Product(arr) # count
         THEN LoadOutcome(NoVolume, <<>>, "ValueError", TRUE)
         ELSE LoadOutcome([dtype |-> ndtype,
                           shape |-> LoadShape(dim, arr, volume),
                           flat  |-> [k \in 1 .. count |->
                                         Cast(SampleAt(raw.content, k, w), arrtype, ndtype)]],
                          meta_dict, "None", TRUE)

\* the test of the element type left out
type_not_tested(element_type) == TRUE

\* the test of the element type: assert(meta_dict['ElementType'] in MHD_TO_NUMPY_TYPE)
type_registered(element_type) ==
    Len(element_type) = 1 /\ element_type[1] \in DictKeys(MHD_TO_NUMPY_TYPE)

\* load_raw_data_with_mhd(filename)
load_raw_data_with_mhd(header, raw) ==
    LET fails(err) == LoadOutcome(NoVolume, <<>>, err, FALSE)
        rd         == read_meta_header(header.content)
        meta_dict  == rd.value
        keys       == DictKeys(meta_dict)
    IN
    IF ~header.exists THEN fails("IOError")
    ELSE IF rd.err # "None" THEN fails(rd.err)
    ELSE IF "NDims" \notin keys THEN fails("KeyError")
    ELSE IF ~IsInt(DictGet(meta_dict, "NDims")) THEN fails("ValueError")
    ELSE IF "ElementType" \notin keys THEN fails("KeyError")
    ELSE IF ~type_registered(DictGet(meta_dict, "ElementType")) THEN fails("AssertionError")
    ELSE IF "DimSize" \notin keys THEN fails("KeyError")
    ELSE LET words == Words(DictGet(meta_dict, "DimSize")) IN
         IF \E i \in 1 .. Len(words) : ~IsInt(words[i]) THEN fails("ValueError")
         ELSE IF "ElementDataFile" \notin keys THEN fails("KeyError")
         ELSE IF Len(DictGet(meta_dict, "ElementType")) # 1
                 \/ DictGet(meta_dict, "ElementType")[1] \notin DictKeys(MHD_TO_NUMPY_TYPE)
         THEN fails("KeyError")
         ELSE load_data(meta_dict, raw,
                        IntOf(DictGet(meta_dict, "NDims")),
                        [i \in 1 .. Len(words) |-> IntOf(words[i])],
                        DictGet(MHD_TO_NUMPY_TYPE, DictGet(meta_dict, "ElementType")[1]))

\* dump_raw_data: a 2-D or 3-D array is written row by row as single-
\* precision floats; the rows of an array of another rank are no lists of
\* numbers (TypeError after the file was opened for writing)
dump_raw_data(filename, data) ==
    IF Len(data.shape) \in {2, 3}
    THEN [raw |-> File(filename,
                       IF data.flat = <<>> THEN <<>>
                       ELSE LET n == Len(data.flat) IN
                            [j \in 1 .. 4 * n |->
                                Float32Bytes(data.flat[((j - 1) \div 4) + 1])[((j - 1) % 4) + 1]]),
          err |-> "None"]
    ELSE [raw |-> File(filename, <<>>), err |-> "TypeError"]

\* write_mhd_file(mhdfile, data, shape): mhdfile is <<stem, extension>>;
\* header and raw are the files before the call.  The keys of
\* NUMPY_TO_MHD_TYPE are the type objects of numpy and data.dtype is a dtype
\* object: the entry of the element type is found when numpy hashes the
\* two alike (dtype_is_key), which the code leaves to numpy.
write_mhd_file(header, raw, mhdfile, data, shape, dtype_is_key) ==
    LET unchanged(err) == [header |-> header, raw |-> raw, err |-> err] IN
    IF mhdfile[Len(mhdfile)] # ".mhd" THEN unchanged("AssertionError")
    ELSE IF ~dtype_is_key \/ data.dtype \notin DictKeys(NUMPY_TO_MHD_TYPE)
    THEN unchanged("KeyError")
    ELSE
      LET raw_name == [i \in 1 .. Len(mhdfile) |->
                          IF mhdfile[i] = ".mhd" THEN ".raw" ELSE mhdfile[i]]
          meta_dict ==
              << <<"ObjectType", <<"Image">> >>,
                 <<"BinaryData", <<"True">> >>,
                 <<"BinaryDataByteOrderMSB", <<"False">> >>,
                 <<"ElementType", <<DictGet(NUMPY_TO_MHD_TYPE, data.dtype)>> >>,
                 <<"NDims", Str(Len(shape))>>,
                 <<"DimSize", Join([i \in 1 .. Len(shape) |-> Str(shape[i])])>>,
                 <<"ElementDataFile", raw_name>> >>
          d == dump_raw_data(raw_name, data)
      IN  [header |-> File(mhdfile, write_meta_header(meta_dict, 1)),
           raw |-> d.raw, err |-> d.err]

(* ------------------------------ the spec ------------------------------ *)

\* what load_mask and check_img_compatibility do in set_mask
LoadOutcomes == {"ok", "FileNotFound", "NiftiFilesNotCompatible"}

NoArgs ==
    [smoothed |-> FALSE, masked |-> FALSE, safe_copy |-> FALSE, fwhm |-> 0,
     mask_img |-> NoMask, rank |-> 0, ok |-> TRUE]

\* the call before the last one is not such a get_data call
NoCall == [op |-> "other", ret |-> None]

\* the state of boyle.mhd while only the image object is used
NoFile == [exists |-> FALSE, name |-> <<>>, content |-> <<>>]

\* the fields of mhd: the last call (op), the files of the directory, who
\* produced them (origin) from which header (meta_dict) or volume (data),
\* and what the last call gave (value, vol, err, opened)
MhdIdle ==
    [op |-> "none", origin |-> "none", meta_dict |-> <<>>, data |-> NoVolume,
     header |-> NoFile, raw |-> NoFile,
     value |-> <<>>, vol |-> NoVolume, err |-> "None", opened |-> FALSE]

Record(op, args, r) ==
    /\ UNCHANGED mhd
    /\ prev' = IF /\ last.op = "get_data" /\ last.err = "None"
                  /\ last.args.smoothed /\ last.args.masked /\ ~last.args.safe_copy
               THEN [op |-> "get_data", ret |-> last.ret]
               ELSE NoCall
    /\ pre' = obj
    /\ obj' = r.s
    /\ last' = [op |-> op, args |-> args, ret |-> r.ret, err |-> r.err,
                depth |-> r.depth, recomputed |-> r.recomputed, rs |-> r.rs,
                rm |-> r.rm, nsmooth |-> r.nsmooth, nmask |-> r.nmask]

Init ==
    /\ \E resident \in BOOLEAN, cache_data \in BOOLEAN, nd \in Ndims :
           obj = Construct(resident, cache_data, nd)
    /\ pre = obj
    /\ last = [op |-> "init", args |-> NoArgs, ret |-> None, err |-> "None",
               depth |-> 0, recomputed |-> FALSE, rs |-> FALSE, rm |-> FALSE,
               nsmooth |-> 0, nmask |-> 0]
    /\ prev = NoCall
    /\ mhd = MhdIdle

ClearData == Record("clear_data", NoArgs, clear_data(obj))

Clear == Record("clear", NoArgs, clear(obj))

SetSmoothFwhm ==
    \E fwhm \in Widths :
        Record("smooth_fwhm", [NoArgs EXCEPT !.fwhm = fwhm], set_smooth_fwhm(obj, fwhm))

RemoveSmoothing == Record("remove_smoothing", NoArgs, remove_smoothing(obj))

RemoveMasking == Record("remove_masking", NoArgs, remove_masking(obj))

SetMask ==
    \E mask_img \in MaskIds, loaded \in LoadOutcomes, resident \in BOOLEAN :
        Record("set_mask", [NoArgs EXCEPT !.mask_img = mask_img, !.ok = (loaded = "ok")],
               set_mask(obj, mask_img, loaded, resident))

GetData ==
    \E smoothed \in BOOLEAN, masked \in BOOLEAN, safe_copy \in BOOLEAN, smooth_ok \in BOOLEAN :
        Record("get_data",
               [NoArgs EXCEPT !.smoothed = smoothed, !.masked = masked,
                              !.safe_copy = safe_copy, !.ok = smooth_ok],
               get_data(obj, smoothed, masked, safe_copy, smooth_ok, 0))

ApplyMask ==
    \E mask_img \in MaskIds, loaded \in LoadOutcomes, resident \in BOOLEAN :
        Record("apply_mask", [NoArgs EXCEPT !.mask_img = mask_img, !.ok = (loaded = "ok")],
               apply_mask(obj, mask_img, loaded, resident, TRUE))

ApplySmoothing ==
    \E fwhm \in Widths, smooth_ok \in BOOLEAN :
        Record("apply_smoothing", [NoArgs EXCEPT !.fwhm = fwhm, !.ok = smooth_ok],
               apply_smoothing(obj, fwhm, smooth_ok))

MaskAndFlatten ==
    \E smooth_ok \in BOOLEAN :
        Record("mask_and_flatten", [NoArgs EXCEPT !.ok = smooth_ok],
               mask_and_flatten(obj, smooth_ok))

Unmask ==
    \E rank \in Ranks :
        Record("unmask", [NoArgs EXCEPT !.rank = rank], unmask(obj, rank))

ToFile ==
    \E smooth_ok \in BOOLEAN :
        Record("to_file", [NoArgs EXCEPT !.ok = smooth_ok], to_file(obj, smooth_ok))

Next ==
    \/ ClearData
    \/ Clear
    \/ SetSmoothFwhm
    \/ RemoveSmoothing
    \/ RemoveMasking
    \/ SetMask
    \/ GetData
    \/ ApplyMask
    \/ ApplySmoothing
    \/ MaskAndFlatten
    \/ Unmask
    \/ ToFile

Spec == Init /\ [][Next]_vars

(* ------------------------- the spec of boyle.mhd ---------------------- *)

HeaderKeys == {"ObjectType", "NDims", "Foo"}

\* values of a header: single-line strings without surrounding whitespace
HeaderValues == {<<>>, <<"a">>, <<"a", " ", "b">>, <<"a", "=", "b">>}

\* the dictionaries of at most MaxEntries entries
Headers ==
    UNION {{d \in [1 .. n -> HeaderKeys \X HeaderValues] :
               \A i, j \in 1 .. n : d[i][1] = d[j][1] => i = j}
           : n \in 0 .. MaxEntries}

\* the lines of a hand-written header
HeaderLines ==
    { <<"NDims", " ", "=", " ", "3", "\n">>,
      <<"NDims", "=", "2", "\n">>,
      <<" ", "Comment", " ", "=", " ", "a", "=", "b", " ", "\n">>,
      <<"Foo", " ", "=", " ", "a", "\n">>,
      <<"NDims", "\n">>,
      <<"a", "\n">>,
      <<"\n">> }

RECURSIVE Concat(_)
Concat(seqs) == IF seqs = <<>> THEN <<>> ELSE Head(seqs) \o Concat(Tail(seqs))

\* the texts of at most MaxLines lines
Texts == UNION {{Concat(ls) : ls \in [1 .. n -> HeaderLines]} : n \in 0 .. MaxLines}

MhdName == <<"vol", ".mhd">>

RawName == <<"vol", ".raw">>

\* the tags of the element types, one of them not in the table
TypeTags == DictKeys(MHD_TO_NUMPY_TYPE) \cup {"MET_LONG"}

RequiredTags == {"NDims", "DimSize", "ElementType", "ElementDataFile"}

\* the shapes of 1 .. MaxNDims dimensions
Shapes == UNION {[1 .. n -> DimSizes] : n \in 1 .. MaxNDims}

\* a header of a volume, without the tags of omit
VolumeHeader(tag, shape, omit) ==
    LET all == << <<"ObjectType", <<"Image">> >>,
                  <<"NDims", Str(Len(shape))>>,
                  <<"DimSize", Join([i \in 1 .. Len(shape) |-> Str(shape[i])])>>,
                  <<"ElementType", <<tag>> >>,
                  <<"ElementDataFile", RawName>> >>
    IN  SelectSeq(all, LAMBDA e : e[1] \notin omit)

\* the width of the samples of a tag in a data file
TagWidth(tag) ==
    IF tag \in DictKeys(MHD_TO_NUMPY_TYPE)
    THEN ByteWidth(DictGet(MHD_TO_NUMPY_TYPE, tag)) ELSE 1

\* a data file of n samples of w bytes: the bytes 0, 1, 2, ...
RawBytes(n, w) == [k \in 1 .. n * w |-> (k - 1) % 256]

\* the samples of an array in memory: 1, 2, 3, 4, 0, 1, ...
Samples(n) == [k \in 1 .. n |-> k % 5]

\* every scenario starts in an empty directory
EmptyDirectory == ~mhd.header.exists /\ ~mhd.raw.exists

\* the element types of the arrays given to write_mhd_file
DataTypes == {"float32", "float64", "uint8", "int32", "uint16"}

\* the calls of write_mhd_file: a volume under a name that ends in '.mhd',
\* and one call with a name that does not
WriteCalls ==
    {<<MhdName, dtype, shape>> : dtype \in DataTypes, shape \in Shapes}
    \cup {<<RawName, "float32", <<1, 1, 1>> >>}

MhdCall(op, origin, meta_dict, data, header, raw, value, vol, err, opened) ==
    mhd' = [op |-> op, origin |-> origin, meta_dict |-> meta_dict, data |-> data,
            header |-> header, raw |-> raw,
            value |-> value, vol |-> vol, err |-> err, opened |-> opened]

\* write_meta_header(filename, meta_dict)
WriteMetaHeader ==
    /\ EmptyDirectory
    /\ \E meta_dict \in Headers :
           MhdCall("write_meta_header", "write_meta_header", meta_dict, NoVolume,
                   File(MhdName, write_meta_header(meta_dict, 1)), mhd.raw,
                   <<>>, NoVolume, "None", FALSE)
    /\ UNCHANGED <<obj, pre, last, prev>>

\* somebody writes a header file by hand into an empty directory
PutHeaderText ==
    /\ EmptyDirectory
    /\ \E text \in Texts :
           MhdCall("put_text", "text", <<>>, NoVolume,
                   File(MhdName, text), NoFile, <<>>, NoVolume, "None", FALSE)
    /\ UNCHANGED <<obj, pre, last, prev>>

\* read_meta_header(filename)
ReadMetaHeader ==
    /\ mhd.header.exists
    /\ LET r == read_meta_header(mhd.header.content) IN
           MhdCall("read_meta_header", mhd.origin, mhd.meta_dict, mhd.data,
                   mhd.header, mhd.raw, r.value, NoVolume, r.err, FALSE)
    /\ UNCHANGED <<obj, pre, last, prev>>

\* MHD_TO_NUMPY_TYPE[tag], then NUMPY_TO_MHD_TYPE of the type found
LookupType ==
    /\ EmptyDirectory
    /\ \E tag \in TypeTags :
           IF tag \notin DictKeys(MHD_TO_NUMPY_TYPE)
           THEN MhdCall("lookup_type", "none", <<>>, NoVolume, NoFile, NoFile,
                        << <<tag>> >>, NoVolume, "KeyError", FALSE)
           ELSE LET ndtype == DictGet(MHD_TO_NUMPY_TYPE, tag) IN
                IF ndtype \notin DictKeys(NUMPY_TO_MHD_TYPE)
                THEN MhdCall("lookup_type", "none", <<>>, NoVolume, NoFile, NoFile,
                             << <<tag, ndtype>> >>, NoVolume, "KeyError", FALSE)
                ELSE MhdCall("lookup_type", "none", <<>>, NoVolume, NoFile, NoFile,
                             << <<tag, ndtype>>,
                                <<ndtype, DictGet(NUMPY_TO_MHD_TYPE, ndtype)>> >>,
                             NoVolume, "None", FALSE)
    /\ UNCHANGED <<obj, pre, last, prev>>

\* NUMPY_TO_MHD_TYPE[ndtype]
LookupTag ==
    /\ EmptyDirectory
    /\ \E ndtype \in ElementTypes :
           IF ndtype \notin DictKeys(NUMPY_TO_MHD_TYPE)
           THEN MhdCall("lookup_tag", "none", <<>>, NoVolume, NoFile, NoFile,
                        << <<ndtype>> >>, NoVolume, "KeyError", FALSE)
           ELSE MhdCall("lookup_tag", "none", <<>>, NoVolume, NoFile, NoFile,
                        << <<ndtype, DictGet(NUMPY_TO_MHD_TYPE, ndtype)>> >>,
                        NoVolume, "None", FALSE)
    /\ UNCHANGED <<obj, pre, last, prev>>

\* somebody puts the two files of a volume into an empty directory: the
\* header, possibly without some required tag, and a data file of as many
\* bytes as the header announces
PutVolumeFiles ==
    /\ EmptyDirectory
    /\ \E tag \in TypeTags, shape \in Shapes, omit \in {{}} \cup {{t} : t \in RequiredTags} :
           MhdCall("put_files", "files",
                   VolumeHeader(tag, shape, omit),
                   [dtype |-> tag, shape |-> shape, flat |-> <<>>],
                   File(MhdName, write_meta_header(VolumeHeader(tag, shape, omit), 1)),
                   File(RawName, RawBytes(Product(shape), TagWidth(tag))),
                   <<>>, NoVolume, "None", FALSE)
    /\ UNCHANGED <<obj, pre, last, prev>>

\* load_raw_data_with_mhd(filename)
LoadRawDataWithMhd ==
    /\ mhd.header.exists
    /\ LET r == load_raw_data_with_mhd(mhd.header, mhd.raw) IN
           MhdCall("load_raw_data_with_mhd", mhd.origin, mhd.meta_dict, mhd.data,
                   mhd.header, mhd.raw, r.value, r.vol, r.err, r.opened)
    /\ UNCHANGED <<obj, pre, last, prev>>

\* write_mhd_file(mhdfile, data, shape) with shape = data.shape
WriteMhdFile ==
    /\ EmptyDirectory
    /\ \E call \in WriteCalls, dtype_is_key \in BOOLEAN :
           LET mhdfile == call[1]
               shape   == call[3]
               data    == [dtype |-> call[2], shape |-> shape,
                           flat |-> Samples(Product(shape))]
               r       == write_mhd_file(mhd.header, mhd.raw, mhdfile, data, shape,
                                         dtype_is_key)
           IN  MhdCall("write_mhd_file",
                       IF r.err = "None" THEN "write_mhd_file" ELSE mhd.origin,
                       IF r.err = "None" THEN <<>> ELSE mhd.meta_dict,
                       data, r.header, r.raw, <<>>, NoVolume, r.err, FALSE)
    /\ UNCHANGED <<obj, pre, last, prev>>

InitMhd ==
    /\ obj = Construct(FALSE, FALSE, 3)
    /\ pre = obj
    /\ last = [op |-> "init", args |-> NoArgs, ret |-> None, err |-> "None",
               depth |-> 0, recomputed |-> FALSE, rs |-> FALSE, rm |-> FALSE,
               nsmooth |-> 0, nmask |-> 0]
    /\ prev = NoCall
    /\ mhd = MhdIdle

NextMhd ==
    \/ WriteMetaHeader
    \/ PutHeaderText
    \/ ReadMetaHeader
    \/ LookupType
    \/ LookupTag
    \/ PutVolumeFiles
    \/ LoadRawDataWithMhd
    \/ WriteMhdFile

SpecMhd == InitMhd /\ [][NextMhd]_vars

(* ------------------------------- claims ------------------------------- *)

\* width, mask and cache flags of the object are as before the last call
SameSettings ==
    /\ obj.smooth_fwhm = pre.smooth_fwhm
    /\ obj.mask = pre.mask
    /\ obj.is_data_smooth = pre.is_data_smooth
    /\ obj.is_data_masked = pre.is_data_masked

\* the last call was get_data(smoothed, masked, safe_copy)
LastGetData(smoothed, masked, safe_copy) ==
    /\ last.op = "get_data"
    /\ last.args.smoothed = smoothed
    /\ last.args.masked = masked
    /\ last.args.safe_copy = safe_copy

\* C1: the data returned by get_data(smoothed=s, masked=m, safe_copy=False)
\* is smoothed iff s and the width is > 0, and masked iff m and a mask is
\* set; get_data(False, False) never returns smoothed or masked data.
C1_ReturnedDataMatchesRequest ==
    (last.op = "get_data" /\ ~last.args.safe_copy /\ last.err = "None") =>
        /\ (last.ret.fwhm > 0) <=> (last.args.smoothed /\ pre.smooth_fwhm > 0)
        /\ (last.ret.mask # NoMask) <=> (last.args.masked /\ pre.mask # NoMask)

\* C2: with a mask set and a width > 0, a second get_data(True, True,
\* False) right after a first one that returned, with the data resident
\* under 'fill' and a smoothing function that does not raise, returns the
\* same data as the first, calls neither the smoothing nor the masking
\* function, and leaves width, mask and both flags unchanged.
C2_SecondCallIsCacheHit ==
    (/\ LastGetData(TRUE, TRUE, FALSE) /\ last.args.ok
     /\ prev.op = "get_data"
     /\ pre.mask # NoMask /\ pre.smooth_fwhm > 0
     /\ pre.in_memory /\ pre.caching = "fill") =>
        /\ last.err = "None"
        /\ last.ret = prev.ret
        /\ last.nsmooth = 0 /\ last.nmask = 0
        /\ SameSettings

\* C3: every call of get_data, direct or through to_file, mask_and_flatten,
\* apply_mask or apply_smoothing, ends without piling up get_data frames to
\* the interpreter's recursion limit.
C3_GetDataNestingBounded ==
    /\ last.depth < RecursionLimit
    /\ last.err # "RecursionError"

\* C4: get_data with safe_copy=True leaves both cache flags as they were,
\* whether it returns or raises; when a get_data frame with safe_copy=False
\* runs the recomputation to its end, the flags are (smoothed requested and
\* width > 0, masked requested and mask set) for the request of that frame.
C4_FlagsCommit ==
    /\ (last.op = "get_data" /\ last.args.safe_copy) =>
           /\ obj.is_data_smooth = pre.is_data_smooth
           /\ obj.is_data_masked = pre.is_data_masked
    /\ (/\ last.op = "get_data" /\ ~last.args.safe_copy
        /\ last.recomputed /\ last.err = "None") =>
           /\ obj.is_data_smooth = (last.rs /\ pre.smooth_fwhm > 0)
           /\ obj.is_data_masked = (last.rm /\ pre.mask # NoMask)

\* C4 witness: a recomputation with smoothing requested while the width is
\* 0 and a mask is set has turned a true smoothed flag to false.
C4_Witness ==
    /\ LastGetData(TRUE, TRUE, FALSE)
    /\ last.recomputed /\ last.err = "None"
    /\ pre.smooth_fwhm = 0 /\ pre.mask # NoMask
    /\ pre.is_data_smooth /\ ~obj.is_data_smooth /\ obj.is_data_masked

\* C5: assigning the smoothing width w sets the width to w, clears the
\* smoothed flag when w differs from the current width, keeps it when w is
\* the current width, and changes nothing else of the object.
C5_SetterFrame ==
    (last.op = "smooth_fwhm") =>
        /\ last.err = "None"
        /\ obj = [pre EXCEPT !.smooth_fwhm = last.args.fwhm,
                             !.is_data_smooth =
                                 IF last.args.fwhm # pre.smooth_fwhm
                                 THEN FALSE ELSE pre.is_data_smooth]

\* C5 witness: the current width is assigned again while both flags are true
C5_Witness ==
    /\ last.op = "smooth_fwhm"
    /\ last.args.fwhm = pre.smooth_fwhm
    /\ pre.is_data_smooth /\ pre.is_data_masked
    /\ obj.is_data_smooth

\* C6: apply_smoothing(fwhm) with fwhm <= 0 returns nothing and leaves the
\* object untouched; with fwhm > 0, when the recomputation raises the error
\* propagates and the width is the one before the call, and when it returns
\* the width is fwhm and the recomputed data is returned.
C6_ApplySmoothing ==
    (last.op = "apply_smoothing") =>
        /\ (last.args.fwhm <= 0) =>
               (last.err = "None" /\ last.ret = None /\ obj = pre)
        /\ (last.args.fwhm > 0 /\ last.err # "None") =>
               (obj.smooth_fwhm = pre.smooth_fwhm /\ last.ret = None)
        /\ (last.args.fwhm > 0 /\ last.err = "None") =>
               (obj.smooth_fwhm = last.args.fwhm /\ last.ret.kind = "volume")

\* C6 witness: apply_smoothing with a new positive width has failed
C6_Witness ==
    /\ last.op = "apply_smoothing"
    /\ last.args.fwhm > 0 /\ last.args.fwhm # pre.smooth_fwhm
    /\ last.err # "None"
    /\ obj.smooth_fwhm = pre.smooth_fwhm

\* C7: when set_mask fails (the mask cannot be loaded or is incompatible
\* with the image) the mask, the width and both flags are as before the
\* call; a call that returns has replaced the mask by the given one.
C7_SetMaskAtomic ==
    (last.op = "set_mask") =>
        /\ (last.err # "None") => (SameSettings /\ obj = pre)
        /\ (last.err = "None") => obj.mask = last.args.mask_img

\* C7 witness: set_mask of another mask has failed while a mask was set
C7_Witness ==
    /\ last.op = "set_mask"
    /\ last.err = "NiftiFilesNotCompatible"
    /\ pre.mask # NoMask /\ pre.mask # last.args.mask_img
    /\ obj.mask = pre.mask

\* C8: clear_data() completes without error, leaves the data of the image
\* (and of the mask) non-resident and both flags false; clear() does the
\* same and ends with image and mask absent and width 0.
C8_ClearCompletes ==
    /\ (last.op = "clear_data") =>
           /\ last.err = "None"
           /\ ~obj.in_memory /\ ~obj.mask_in_memory
           /\ ~obj.is_data_smooth /\ ~obj.is_data_masked
    /\ (last.op = "clear") =>
           /\ last.err = "None"
           /\ ~obj.in_memory /\ ~obj.mask_in_memory
           /\ ~obj.is_data_smooth /\ ~obj.is_data_masked
           /\ ~obj.img /\ obj.mask = NoMask /\ obj.smooth_fwhm = 0

\* C9: to_file without a mask and with the smoothed flag false saves the
\* image itself and changes nothing; in every other state it saves the data
\* of get_data(smoothed=True, masked=True): smoothed with the current width
\* when that is > 0 and projected through the current mask.  (Stated for an
\* image present, of a maskable dimensionality, and a smoothing function
\* that does not raise.)
C9_ToFileSaves ==
    (last.op = "to_file" /\ pre.img /\ pre.ndim \in {3, 4} /\ last.args.ok) =>
        IF pre.mask = NoMask /\ ~pre.is_data_smooth
        THEN last.err = "None" /\ last.ret = Value("image", 0, NoMask, 0) /\ obj = pre
        ELSE /\ last.err = "None"
             /\ last.ret = Value("data",
                                 IF pre.smooth_fwhm > 0 THEN pre.smooth_fwhm ELSE 0,
                                 pre.mask, 0)

\* C10: unmask without a mask returns its argument for every rank and
\* raises nothing; with a mask it rebuilds a volume from a rank-1 or rank-2
\* argument and raises ValueError for every other rank; it never changes
\* the mask, the width or the flags.
C10_Unmask ==
    (last.op = "unmask") =>
        /\ (pre.mask = NoMask) =>
               (last.err = "None" /\ last.ret = Value("array", 0, NoMask, last.args.rank))
        /\ (pre.mask # NoMask /\ last.args.rank \in {1, 2}) =>
               (last.err = "None" /\ last.ret = Value("unmasked", 0, pre.mask, last.args.rank))
        /\ (pre.mask # NoMask /\ last.args.rank \notin {1, 2}) =>
               (last.err = "ValueError" /\ last.ret = None)
        /\ SameSettings

\* C10 witness: unmask of a rank-2 array with a mask set and both flags true
C10_Witness ==
    /\ last.op = "unmask"
    /\ pre.mask # NoMask /\ last.args.rank = 2
    /\ last.err = "None"
    /\ obj.is_data_smooth /\ obj.is_data_masked

\* C19: whenever the masked flag is true a mask is set, and no call that
\* replaces or removes the mask leaves the masked flag true.
C19_MaskedFlagValid ==
    /\ obj.is_data_masked => obj.mask # NoMask
    /\ (obj.mask # pre.mask) => ~obj.is_data_masked

\* C20: whenever the smoothed flag is true the width is > 0, and no call
\* that changes the width leaves the smoothed flag true.
C20_SmoothedFlagValid ==
    /\ obj.is_data_smooth => obj.smooth_fwhm > 0
    /\ (obj.smooth_fwhm # pre.smooth_fwhm) => ~obj.is_data_smooth


\* the lines of the header file
WrittenLines == ReadLines(mhd.header.content)

\* C16: write_meta_header writes one line 'tag = value' for exactly the tags
\* of MHD_TAGS that the dictionary holds, in the order of MHD_TAGS whatever
\* the order of the dictionary; other keys are left out and an empty
\* dictionary gives the empty text.
C16_SerializeInSchemaOrder ==
    mhd.op = "write_meta_header" =>
        LET present == DictKeys(mhd.meta_dict) \cap SchemaTags IN
        /\ mhd.header.exists /\ mhd.err = "None"
        /\ Len(WrittenLines) = Cardinality(present)
        /\ \A i \in 1 .. Len(WrittenLines) :
               /\ WrittenLines[i][1] \in present
               /\ WrittenLines[i] = <<WrittenLines[i][1], " ", "=", " ">>
                                    \o DictGet(mhd.meta_dict, WrittenLines[i][1])
                                    \o <<"\n">>
        /\ \A i, j \in 1 .. Len(WrittenLines) :
               i < j => TagIndex(WrittenLines[i][1]) < TagIndex(WrittenLines[j][1])
        /\ (mhd.meta_dict = <<>> => mhd.header.content = <<>>)

\* a dictionary filled against the order of MHD_TAGS was written
C16_Witness ==
    /\ mhd.op = "write_meta_header"
    /\ Len(mhd.meta_dict) = 2
    /\ mhd.meta_dict[1][1] = "NDims"
    /\ mhd.meta_dict[2][1] = "ObjectType"
    /\ Len(WrittenLines) = 2

\* a dictionary with a key outside MHD_TAGS was written
C16_WitnessUnknownKey ==
    /\ mhd.op = "write_meta_header"
    /\ "Foo" \in DictKeys(mhd.meta_dict)
    /\ Len(WrittenLines) = 1

\* C11: a dictionary whose keys are tags of MHD_TAGS and whose values are
\* single-line strings without surrounding whitespace ('=' included) is read
\* back unchanged from the text that write_meta_header wrote for it.
C11_HeaderRoundTrip ==
    (/\ mhd.op = "read_meta_header"
     /\ mhd.origin = "write_meta_header"
     /\ DictKeys(mhd.meta_dict) \subseteq SchemaTags)
    => /\ mhd.err = "None"
       /\ DictItems(mhd.value) = DictItems(mhd.meta_dict)

\* C12: every tag of the table gives a type that gives the same tag back,
\* no two tags give the same type, and every element type has a tag.
C12_TypeBijection ==
    /\ (mhd.op = "lookup_type" /\ mhd.value[1][1] \in DictKeys(MHD_TO_NUMPY_TYPE))
       => /\ mhd.err = "None"
          /\ Len(mhd.value) = 2
          /\ mhd.value[2][2] = mhd.value[1][1]
          /\ \A tag \in DictKeys(MHD_TO_NUMPY_TYPE) :
                 DictGet(MHD_TO_NUMPY_TYPE, tag) = mhd.value[1][2] => tag = mhd.value[1][1]
    /\ mhd.op = "lookup_tag" => mhd.err = "None"

\* the place of the first '=' of a line, 0 when there is none
FirstEq(line) ==
    IF \A i \in 1 .. Len(line) : line[i] # "=" THEN 0
    ELSE CHOOSE i \in 1 .. Len(line) : line[i] = "=" /\ \A k \in 1 .. i - 1 : line[k] # "="

\* the line carries the tag: 'tag = value'
Carries(line, tag) ==
    FirstEq(line) > 0 /\ Strip(SubSeq(line, 1, FirstEq(line) - 1)) = <<tag>>

\* the trimmed value of a line that carries a tag
LineValue(line) == Strip(SubSeq(line, FirstEq(line) + 1, Len(line)))

\* C17: read_meta_header of any lines gives, for each tag of MHD_TAGS that
\* some line carries, the trimmed value of the first such line; every other
\* line (another key, no '=') gives no entry and no error.
C17_ParseFirstOccurrence ==
    (mhd.op = "read_meta_header" /\ mhd.origin = "text")
    => LET lines == ReadLines(mhd.header.content) IN
       /\ mhd.err = "None"
       /\ DictKeys(mhd.value) \subseteq SchemaTags
       /\ \A tag \in SchemaTags :
              IF \E i \in 1 .. Len(lines) : Carries(lines[i], tag)
              THEN /\ tag \in DictKeys(mhd.value)
                   /\ LET first == CHOOSE i \in 1 .. Len(lines) :
                                       /\ Carries(lines[i], tag)
                                       /\ \A k \in 1 .. i - 1 : ~Carries(lines[k], tag)
                      IN  DictGet(mhd.value, tag) = LineValue(lines[first])
              ELSE tag \notin DictKeys(mhd.value)

\* the last call loaded the files of a volume that somebody put there: the
\* tag and the shape of the header are in mhd.data
LoadedPutFiles == mhd.op = "load_raw_data_with_mhd" /\ mhd.origin = "files"

\* the header holds the four required tags
Complete == RequiredTags \subseteq DictKeys(mhd.meta_dict)

\* the tag of the header is in the table
Registered == mhd.data.dtype \in DictKeys(MHD_TO_NUMPY_TYPE)

\* C13: for every tag of the table, a data file of exactly
\* product(DimSize) * width bytes is decoded without a truncation error and
\* sample k is the k-th group of width bytes of the file.
C13_DecodeWidth ==
    (LoadedPutFiles /\ Complete /\ Registered)
    => LET w == TagWidth(mhd.data.dtype)
           n == Product(mhd.data.shape)
       IN  /\ Len(mhd.raw.content) = n * w
           /\ mhd.err = "None"
           /\ Len(mhd.vol.flat) = n
           /\ \A k \in 1 .. n : mhd.vol.flat[k] = SampleAt(mhd.raw.content, k, w)

\* C14: a 3-D array written by write_mhd_file under a name that ends in
\* '.mhd' and loaded again has the same shape, the same element type and
\* the same samples at the same places.
C14_SaveLoadRoundTrip ==
    (/\ mhd.op = "load_raw_data_with_mhd"
     /\ mhd.origin = "write_mhd_file"
     /\ Len(mhd.data.shape) = 3)
    => /\ mhd.err = "None"
       /\ mhd.vol.shape = mhd.data.shape
       /\ mhd.vol.dtype = mhd.data.dtype
       /\ mhd.vol.flat = [k \in 1 .. Len(mhd.data.flat) |->
                             SampleBytes(mhd.data.dtype, mhd.data.flat[k])]

\* C15: a header with the four required tags whose ElementType is not in the
\* table fails on the assertion, before the data file is opened and with the
\* two files as they were; a header that lacks a required tag (its type, if
\* it names one, being in the table) fails with KeyError.
C15_LoadErrors ==
    LoadedPutFiles =>
        /\ (Complete /\ ~Registered)
           => /\ mhd.err = "AssertionError"
              /\ ~mhd.opened
              /\ mhd.vol = NoVolume
              /\ mhd.header = File(MhdName, write_meta_header(mhd.meta_dict, 1))
              /\ mhd.raw = File(RawName, RawBytes(Product(mhd.data.shape),
                                                  TagWidth(mhd.data.dtype)))
        /\ (~Complete /\ (Registered \/ "ElementType" \notin DictKeys(mhd.meta_dict)))
           => mhd.err = "KeyError" /\ ~mhd.opened /\ mhd.vol = NoVolume

\* a complete header with a tag outside the table was loaded
C15_Witness ==
    /\ LoadedPutFiles /\ Complete /\ ~Registered
    /\ mhd.err = "AssertionError"

\* a header without DimSize was loaded
C15_WitnessMissingTag ==
    /\ LoadedPutFiles /\ Registered
    /\ "DimSize" \notin DictKeys(mhd.meta_dict)
    /\ mhd.err = "KeyError"

\* C18: a load of NDims = n and DimSize = (s1 .. sn) decodes s1 * ... * sn
\* samples; the shape is (s3, s2, s1) when n = 3 and (sn, s1 * ... * s(n-1))
\* otherwise; the samples are in the order of the file.
C18_ShapeReconstruction ==
    (LoadedPutFiles /\ Complete /\ Registered)
    => LET s == mhd.data.shape
           n == Len(s)
           w == TagWidth(mhd.data.dtype)
       IN  /\ mhd.err = "None"
           /\ Len(mhd.vol.flat) = Product(s)
           /\ mhd.vol.shape = IF n = 3 THEN <<s[3], s[2], s[1]>>
                              ELSE <<s[n], Product(SubSeq(s, 1, n - 1))>>
           /\ mhd.vol.flat = [k \in 1 .. Product(s) |-> SampleAt(mhd.raw.content, k, w)]

====
